---- MODULE Spec2Model ----
(***************************************************************************)
(* Model of the Doofinder bulk-ingestion tool (src/doofinder/ingestion.py): *)
(* main() as the coordinating thread, the ThreadPoolExecutor workers that  *)
(* run DoofinderIngestion.ingest_batch, and the remote search service as   *)
(* the environment that answers every HTTP request.                        *)
(***************************************************************************)
EXTENDS Integers, Sequences, FiniteSets, TLC

\* ------------------------------------------------------------------ bounds

\* Largest catalog of the small configurations.
MaxItems == 2

\* Largest --batch-size of the small configurations.
MaxBatchSize == 2

\* Largest --workers of the small configurations.
MaxWorkers == 2

\* Largest length of a JSON array the remote service answers an upload with
\* (besides the batch's own length and the batch size, see ResponseLens).
MaxData == 1

\* Readings of time.time() at the first transform_product call.
MaxTime == 1

\* ------------------------------------------------- argparse defaults

\* --workers default
DefaultWorkers == 5

\* --batch-size default
DefaultBatchSize == 100

\* --index default
DefaultIndex == "product"

\* ------------------------------------------------------------ variables

VARIABLES
    args,                  \* parsed command line: batch_size, workers, index
    file,                  \* the JSON array stored in --file
    pc,                    \* position of main()
    products,              \* json.load(f)
    transformed_products,
    batches,
    temp_index,            \* "" until create_temporary_index returned
    success_count,
    error_count,
    error_batches,
    futures,               \* futures[b]: the future of batches[b]
    work_queue,            \* executor's queue of submitted, not yet started work
    aggregated,            \* batches whose result the as_completed loop tallied
    pending_error,         \* exception travelling from the with block to the handler
    stdout,                \* what main() printed: the critical error, the report
    exit_code,             \* the process's exit status once pc = "exited"
    calls,                 \* requests sent to the index endpoints, with their answers
    uploads,               \* uploads[b]: the POST /items requests made for batch b
    remote,                \* the remote service: the temp index and production
    requests               \* GET requests the search client built, in order

vars == <<args, file, pc, products, transformed_products, batches, temp_index,
          success_count, error_count, error_batches, futures, work_queue,
          aggregated, pending_error, stdout, exit_code, calls, uploads, remote,
          requests>>

\* ------------------------------------------------------------- helpers

Min(a, b) == IF a < b THEN a ELSE b

RECURSIVE SumTo(_, _)
\* sum of f[1] .. f[n]
SumTo(f, n) == IF n = 0 THEN 0 ELSE f[n] + SumTo(f, n - 1)

RECURSIVE Concat(_, _)
\* batches[1] \o ... \o batches[n]
Concat(bs, n) == IF n = 0 THEN <<>> ELSE Concat(bs, n - 1) \o bs[n]

\* dict.get(key, default)
Get(d, key, default) == IF key \in DOMAIN d THEN d[key] ELSE default

RECURSIVE PyRange(_, _, _)
\* range(start, stop, step) for step > 0, as a sequence
PyRange(start, stop, step) ==
    IF start >= stop THEN <<>>
    ELSE <<start>> \o PyRange(start + step, stop, step)

\* seq[lo:hi] for 0 <= lo <= hi: a slice is clamped to the sequence's end
Slice(seq, lo, hi) == SubSeq(seq, lo + 1, Min(hi, Len(seq)))

\* ------------------------------------------------------ the data model

\* A catalog record that carries a title; its other optional keys are absent
\* except platform_id and price.
Product(i) == [platform_id |-> <<"sku", i>>, title |-> "title", price |-> i]

\* A catalog record without the required title key.
Untitled(i) == [platform_id |-> <<"sku", i>>, price |-> i]

\* str(time.time())
TimeStr(now) == <<"ts", now>>

\* product["title"] raises KeyError when the key is absent
HasTitle(product) == "title" \in DOMAIN product

\* Mutant: the link is read from a "link" key instead of "url".
transform_product_LinkKey(product, now) ==
    [id           |-> Get(product, "platform_id", TimeStr(now)),
     title        |-> product["title"],
     description  |-> Get(product, "description", ""),
     image_url    |-> Get(product, "image_url", ""),
     link         |-> Get(product, "link", ""),
     price        |-> Get(product, "price", 0),
     categories   |-> Get(product, "category", <<>>),
     availability |-> "in stock"]

transform_product(product, now) ==
    [id           |-> Get(product, "platform_id", TimeStr(now)),
     title        |-> product["title"],
     description  |-> Get(product, "description", ""),
     image_url    |-> Get(product, "image_url", ""),
     link         |-> Get(product, "url", ""),
     price        |-> Get(product, "price", 0),
     categories   |-> Get(product, "category", <<>>),
     availability |-> "in stock"]

\* Mutant: the range stops where the last full batch starts, so a shorter
\* trailing batch is dropped.
CreateBatches_FullOnly(transformed, batch_size) ==
    LET starts == PyRange(0, Len(transformed) - batch_size + 1, batch_size)
    IN  [k \in 1..Len(starts) |-> Slice(transformed, starts[k], starts[k] + batch_size)]

\* [transformed[i : i + batch_size] for i in range(0, len(transformed), batch_size)]
CreateBatches(transformed, batch_size) ==
    LET starts == PyRange(0, Len(transformed), batch_size)
    IN  [k \in 1..Len(starts) |-> Slice(transformed, starts[k], starts[k] + batch_size)]

\* ------------------------------------------------- the remote service

\* What the service, or the transport, answers to POST /indices/... requests.
IndexResponses == {"ok", "http_error", "connection_error"}

JsonArray(n) == [type |-> "array", len |-> n]
JsonNull == [type |-> "null"]

\* len(data): defined for arrays, objects and strings; TypeError otherwise
Sized(data) == data.type = "array"

\* Lengths of the JSON array an accepted upload is answered with: the service
\* is free to answer with any payload, one entry per uploaded item or not.
ResponseLens(batch, batch_size) == (0..MaxData) \cup {Len(batch), batch_size}

\* What the service, or the transport, answers to POST /items/{index}:
\*   json        2xx with a JSON body
\*   bad_json    2xx with a body response.json() cannot decode
\*   http_error  a 4xx/5xx status, raised by raise_for_status()
\*   timeout     no answer within the 30 s timeout
\*   connection_error  the transport failed
UploadResponses(batch, batch_size) ==
    {[kind |-> "json", json |-> JsonArray(n)] : n \in ResponseLens(batch, batch_size)}
    \cup {[kind |-> "json", json |-> JsonNull]}
    \cup {[kind |-> k] : k \in {"bad_json", "http_error", "timeout", "connection_error"}}

\* A request that has not been answered yet.
Pending == [kind |-> "pending"]

\* Whether the service stored the uploaded items: it did when it answered 2xx,
\* it did not when it answered an error status or was never reached, and
\* either is possible when the client stopped waiting.
MayStore(resp) == IF resp.kind \in {"json", "bad_json"} THEN {TRUE}
                  ELSE IF resp.kind = "timeout" THEN {TRUE, FALSE}
                  ELSE {FALSE}

\* ------------------------------------------------- DoofinderIngestion

Returned(v) == [raised |-> FALSE, value |-> v]
Raised(e) == [raised |-> TRUE, error |-> e]

\* Mutant: the temporary index carries the name of the production index.
TempName_Base(name) == name

TempName(name) == name \o "_temp"

\* Mutant: response.raise_for_status() is missing.
create_temporary_index_NoRaise(name, resp) == Returned(TempName(name))

create_temporary_index(name, resp) ==
    IF resp = "ok" THEN Returned(TempName(name)) ELSE Raised(resp)

\* Mutant: raise_for_status() is called outside the try block.
ingest_batch_Unguarded(index_name, batch, resp) ==
    IF resp.kind = "json"
    THEN Returned([success |-> TRUE, data |-> resp.json])
    ELSE IF resp.kind = "http_error"
    THEN Raised(resp.kind)
    ELSE Returned([success |-> FALSE, error |-> resp.kind, products |-> batch])

ingest_batch(index_name, batch, resp) ==
    IF resp.kind = "json"
    THEN Returned([success |-> TRUE, data |-> resp.json])
    ELSE Returned([success |-> FALSE, error |-> resp.kind, products |-> batch])

replace_index(temp, final, resp) ==
    IF resp = "ok" THEN Returned("None") ELSE Raised(resp)

\* ------------------------------------------------------------- Init

\* Command lines and catalogs: the small configurations, and the default
\* batch size and worker count on a catalog of 250 products.
Configs ==
    {[n |-> n, batch_size |-> s, workers |-> w] :
        n \in 0..MaxItems, s \in 1..MaxBatchSize, w \in 1..MaxWorkers}
    \cup {[n |-> 250, batch_size |-> DefaultBatchSize, workers |-> DefaultWorkers]}

\* Catalogs of n records: every record titled, or one record without title.
Catalogs(n) ==
    {[i \in 1..n |-> Product(i)]}
    \cup (IF n <= MaxItems
          THEN {[i \in 1..n |-> IF i = k THEN Untitled(i) ELSE Product(i)] : k \in 1..n}
          ELSE {})

Init ==
    /\ \E c \in Configs :
         /\ args = [batch_size |-> c.batch_size, workers |-> c.workers,
                    index |-> DefaultIndex]
         /\ file \in Catalogs(c.n)
    /\ pc = "load"
    /\ products = <<>>
    /\ transformed_products = <<>>
    /\ batches = <<>>
    /\ temp_index = ""
    /\ success_count = 0
    /\ error_count = 0
    /\ error_batches = <<>>
    /\ futures = <<>>
    /\ work_queue = <<>>
    /\ aggregated = {}
    /\ pending_error = ""
    /\ stdout = <<>>
    /\ exit_code = 0
    /\ calls = [create |-> <<>>, replace |-> <<>>]
    /\ uploads = <<>>
    /\ remote = [temp_exists |-> FALSE, temp_items |-> {}, production |-> "old"]
    /\ requests = <<>>

\* ------------------------------------------------------------ main()

\* except Exception as e: print(f"Critical error: {e}"); exit(1)
Fatal(e) ==
    /\ stdout' = Append(stdout, [kind |-> "critical", error |-> e])
    /\ exit_code' = 1
    /\ pc' = "exited"

\* Mutant: the index is replaced only after a run without failed items.
ShouldReplace_OnlyCleanRun == success_count > 0 /\ error_count = 0

\* Mutant: the test is off by one and always passes.
ShouldReplace_Always == success_count >= 0

\* if success_count > 0
ShouldReplace == success_count > 0

\* Mutant: "Failed imports" prints the number of failed batches.
Report_FailedBatches(total, successes, errors, failed) ==
    [kind       |-> "report",
     total      |-> total,
     successful |-> successes,
     failed     |-> Len(failed),
     details    |-> [k \in 1..Len(failed) |->
                       [error |-> failed[k].error, count |-> Len(failed[k].products)]]]

\* Mutant: the error details stop after the first failed batch.
Report_FirstErrorOnly(total, successes, errors, failed) ==
    [kind       |-> "report",
     total      |-> total,
     successful |-> successes,
     failed     |-> errors,
     details    |-> [k \in 1..Min(1, Len(failed)) |->
                       [error |-> failed[k].error, count |-> Len(failed[k].products)]]]

\* the lines printed after the replace-or-not decision
Report(total, successes, errors, failed) ==
    [kind       |-> "report",
     total      |-> total,
     successful |-> successes,
     failed     |-> errors,
     details    |-> [k \in 1..Len(failed) |->
                       [error |-> failed[k].error, count |-> Len(failed[k].products)]]]

\* Mutant: a succeeded batch counts as one import, whatever it returned.
AddSuccess_PerBatch(count, result) == count + 1

\* success_count += len(result["data"])
AddSuccess(count, result) == count + result.data.len

\* Mutant: error_count is assigned, not incremented.
AddError_LastOnly(count, result) == Len(result.products)

\* Mutant: a failed batch counts as one failed import, whatever it held.
AddError_PerBatch(count, result) == count + 1

\* error_count += len(result["products"])
AddError(count, result) == count + Len(result.products)

\* with open(args.file) as f: products = json.load(f)
LoadProducts ==
    /\ pc = "load"
    /\ products' = file
    /\ pc' = "transform"
    /\ UNCHANGED <<requests, args, file, transformed_products, batches, temp_index,
                   success_count, error_count, error_batches, futures, work_queue,
                   aggregated, pending_error, stdout, exit_code, calls, uploads,
                   remote>>

\* open() or json.load() raises: no such file, not JSON
LoadFails ==
    /\ pc = "load"
    /\ \E e \in {"FileNotFoundError", "JSONDecodeError"} : Fatal(e)
    /\ UNCHANGED <<requests, args, file, products, transformed_products, batches, temp_index,
                   success_count, error_count, error_batches, futures, work_queue,
                   aggregated, pending_error, calls, uploads, remote>>

\* Mutant: records without a title are dropped and the run goes on.
TransformProducts_SkipsUntitled ==
    /\ pc = "transform"
    /\ \E now \in 1..MaxTime, tick \in {0, 1} :
         LET titled == SelectSeq(products, HasTitle)
         IN  transformed_products' =
                 [i \in 1..Len(titled) |->
                     transform_product(titled[i], now + tick * (i - 1))]
    /\ pc' = "partition"
    /\ UNCHANGED <<stdout, exit_code>>
    /\ UNCHANGED <<requests, args, file, products, batches, temp_index, success_count,
                   error_count, error_batches, futures, work_queue, aggregated,
                   pending_error, calls, uploads, remote>>

\* transformed_products = [transform_product(p) for p in products]
\* time.time() is read once per record; consecutive readings are equal
\* (tick = 0) or apart (tick = 1).
TransformProducts ==
    /\ pc = "transform"
    /\ IF \A i \in 1..Len(products) : HasTitle(products[i])
       THEN /\ \E now \in 1..MaxTime, tick \in {0, 1} :
                 transformed_products' =
                     [i \in 1..Len(products) |->
                         transform_product(products[i], now + tick * (i - 1))]
            /\ pc' = "partition"
            /\ UNCHANGED <<stdout, exit_code>>
       ELSE /\ Fatal("KeyError")
            /\ UNCHANGED transformed_products
    /\ UNCHANGED <<requests, args, file, products, batches, temp_index, success_count,
                   error_count, error_batches, futures, work_queue, aggregated,
                   pending_error, calls, uploads, remote>>

\* batches = [...]; print("Starting import ...")
PartitionBatches ==
    /\ pc = "partition"
    /\ batches' = CreateBatches(transformed_products, args.batch_size)
    /\ stdout' = Append(stdout, [kind |-> "start", total |-> Len(transformed_products),
                                 batches |-> Len(batches')])
    /\ pc' = "create"
    /\ UNCHANGED <<requests, args, file, products, transformed_products, temp_index,
                   success_count, error_count, error_batches, futures, work_queue,
                   aggregated, pending_error, exit_code, calls, uploads, remote>>

\* temp_index = client.create_temporary_index(args.index); the counters are
\* initialised and the executor is entered
CreateTemporaryIndex ==
    /\ pc = "create"
    /\ \E resp \in IndexResponses :
         LET r == create_temporary_index(args.index, resp)
         IN  /\ calls' = [calls EXCEPT !.create =
                            Append(@, [index |-> TempName(args.index), response |-> resp])]
             /\ remote' = [remote EXCEPT !.temp_exists = @ \/ (resp = "ok")]
             /\ IF r.raised
                THEN /\ Fatal(r.error)
                     /\ UNCHANGED temp_index
                ELSE /\ temp_index' = r.value
                     /\ stdout' = Append(stdout, [kind |-> "created", index |-> r.value])
                     /\ pc' = IF Len(batches) = 0 THEN "decide" ELSE "submit"
                     /\ UNCHANGED exit_code
    /\ UNCHANGED <<requests, args, file, products, transformed_products, batches,
                   success_count, error_count, error_batches, futures, work_queue,
                   aggregated, pending_error, uploads>>

\* executor.submit(client.ingest_batch, temp_index, batch), one batch per step
SubmitBatch ==
    /\ pc = "submit"
    /\ LET b == Len(futures) + 1
       IN  /\ futures' = Append(futures, [state |-> "pending"])
           /\ work_queue' = Append(work_queue, b)
           /\ uploads' = Append(uploads, <<>>)
           /\ pc' = IF b = Len(batches) THEN "collect" ELSE "submit"
    /\ UNCHANGED <<requests, args, file, products, transformed_products, batches, temp_index,
                   success_count, error_count, error_batches, aggregated,
                   pending_error, stdout, exit_code, calls, remote>>

\* Mutant: a failed batch is recorded and submitted again.
CollectResult_Resubmits(b) ==
    /\ pc = "collect"
    /\ b \in 1..Len(futures)
    /\ b \notin aggregated
    /\ futures[b].state = "finished"
    /\ LET outcome == futures[b].outcome
           result  == outcome.value
           error   == IF outcome.raised THEN outcome.error
                      ELSE IF result.success /\ ~Sized(result.data) THEN "TypeError"
                      ELSE ""
       IN  IF error # ""
           THEN /\ pending_error' = error
                /\ pc' = "shutdown"
                /\ UNCHANGED <<success_count, error_count, error_batches, aggregated,
                               futures, work_queue>>
           ELSE IF result.success
           THEN /\ success_count' = AddSuccess(success_count, result)
                /\ aggregated' = aggregated \cup {b}
                /\ pc' = IF aggregated' = 1..Len(batches) THEN "decide" ELSE "collect"
                /\ UNCHANGED <<error_count, error_batches, futures, work_queue,
                               pending_error>>
           ELSE /\ error_count' = AddError(error_count, result)
                /\ error_batches' = Append(error_batches, result)
                /\ futures' = [futures EXCEPT ![b] = [state |-> "pending"]]
                /\ work_queue' = Append(work_queue, b)
                /\ UNCHANGED <<success_count, aggregated, pending_error, pc>>
    /\ UNCHANGED <<requests, args, file, products, transformed_products, batches,
                   temp_index, stdout, exit_code, calls, uploads, remote>>

\* one iteration of: for future in as_completed(futures)
CollectResult(b) ==
    /\ pc = "collect"
    /\ b \in 1..Len(futures)
    /\ b \notin aggregated
    /\ futures[b].state = "finished"
    /\ LET outcome == futures[b].outcome
           result  == outcome.value
           error   == IF outcome.raised THEN outcome.error
                      ELSE IF result.success /\ ~Sized(result.data) THEN "TypeError"
                      ELSE ""
       IN  IF error # ""
           THEN \* future.result() or len() raises: the with blocks are left
                /\ pending_error' = error
                /\ pc' = "shutdown"
                /\ UNCHANGED <<success_count, error_count, error_batches, aggregated>>
           ELSE /\ IF result.success
                   THEN /\ success_count' = AddSuccess(success_count, result)
                        /\ UNCHANGED <<error_count, error_batches>>
                   ELSE /\ error_count' = AddError(error_count, result)
                        /\ error_batches' = Append(error_batches, result)
                        /\ UNCHANGED success_count
                /\ aggregated' = aggregated \cup {b}
                /\ pc' = IF aggregated' = 1..Len(batches) THEN "decide" ELSE "collect"
                /\ UNCHANGED pending_error
    /\ UNCHANGED <<requests, args, file, products, transformed_products, batches, temp_index,
                   futures, work_queue, stdout, exit_code, calls, uploads, remote>>

\* ThreadPoolExecutor.__exit__ on an exception: shutdown(wait=True) returns
\* once every submitted batch has run, then the handler exits
ShutdownAfterError ==
    /\ pc = "shutdown"
    /\ \A b \in 1..Len(futures) : futures[b].state = "finished"
    /\ Fatal(pending_error)
    /\ UNCHANGED <<requests, args, file, products, transformed_products, batches, temp_index,
                   success_count, error_count, error_batches, futures, work_queue,
                   aggregated, pending_error, calls, uploads, remote>>

\* Mutant: a failed replacement is compensated by deleting the temporary
\* index and what was uploaded to it.
ReplaceIndex_RollsBack ==
    /\ pc = "decide"
    /\ ShouldReplace
    /\ \E resp \in IndexResponses :
         LET r == replace_index(temp_index, args.index, resp)
         IN  /\ calls' = [calls EXCEPT !.replace =
                            Append(@, [temp |-> temp_index, final |-> args.index,
                                       response |-> resp])]
             /\ IF r.raised
                THEN /\ stdout' = Append(Append(stdout, [kind |-> "replacing"]),
                                         [kind |-> "critical", error |-> r.error])
                     /\ exit_code' = 1
                     /\ pc' = "exited"
                     /\ remote' = [remote EXCEPT !.temp_exists = FALSE,
                                                 !.temp_items = {}]
                ELSE /\ stdout' = Append(Append(stdout, [kind |-> "replacing"]),
                                         [kind |-> "replaced"])
                     /\ remote' = [remote EXCEPT !.production = "new"]
                     /\ pc' = "report"
                     /\ UNCHANGED exit_code
    /\ UNCHANGED <<requests, args, file, products, transformed_products, batches, temp_index,
                   success_count, error_count, error_batches, futures, work_queue,
                   aggregated, pending_error, uploads>>

\* if success_count > 0: client.replace_index(temp_index, args.index)
ReplaceIndex ==
    /\ pc = "decide"
    /\ ShouldReplace
    /\ \E resp \in IndexResponses :
         LET r == replace_index(temp_index, args.index, resp)
         IN  /\ calls' = [calls EXCEPT !.replace =
                            Append(@, [temp |-> temp_index, final |-> args.index,
                                       response |-> resp])]
             /\ IF r.raised
                THEN /\ stdout' = Append(Append(stdout, [kind |-> "replacing"]),
                                         [kind |-> "critical", error |-> r.error])
                     /\ exit_code' = 1
                     /\ pc' = "exited"
                     /\ UNCHANGED remote
                ELSE /\ stdout' = Append(Append(stdout, [kind |-> "replacing"]),
                                         [kind |-> "replaced"])
                     /\ remote' = [remote EXCEPT !.production = "new"]
                     /\ pc' = "report"
                     /\ UNCHANGED exit_code
    /\ UNCHANGED <<requests, args, file, products, transformed_products, batches, temp_index,
                   success_count, error_count, error_batches, futures, work_queue,
                   aggregated, pending_error, uploads>>

\* success_count > 0 is false: the replacement is skipped
SkipReplace ==
    /\ pc = "decide"
    /\ ~ShouldReplace
    /\ pc' = "report"
    /\ UNCHANGED <<requests, args, file, products, transformed_products, batches, temp_index,
                   success_count, error_count, error_batches, futures, work_queue,
                   aggregated, pending_error, stdout, exit_code, calls, uploads,
                   remote>>

\* Mutant: a run that recorded failed batches ends with exit(1).
PrintReport_ExitOnErrors ==
    /\ pc = "report"
    /\ stdout' = Append(stdout, Report(Len(transformed_products), success_count,
                                       error_count, error_batches))
    /\ exit_code' = IF error_batches # <<>> THEN 1 ELSE 0
    /\ pc' = "exited"
    /\ UNCHANGED <<requests, args, file, products, transformed_products, batches, temp_index,
                   success_count, error_count, error_batches, futures, work_queue,
                   aggregated, pending_error, calls, uploads, remote>>

\* print("Import complete!") ... the error details; main() returns
PrintReport ==
    /\ pc = "report"
    /\ stdout' = Append(stdout, Report(Len(transformed_products), success_count,
                                       error_count, error_batches))
    /\ pc' = "exited"
    /\ UNCHANGED <<requests, args, file, products, transformed_products, batches, temp_index,
                   success_count, error_count, error_batches, futures, work_queue,
                   aggregated, pending_error, exit_code, calls, uploads, remote>>

\* ------------------------------------------------- the executor's workers

Running == {b \in 1..Len(futures) : futures[b].state = "running"}

\* Mutant: every queued batch gets a thread of its own.
StartUpload_Unbounded ==
    /\ work_queue # <<>>
    /\ LET b == Head(work_queue)
       IN  /\ futures' = [futures EXCEPT ![b] = [state |-> "running"]]
           /\ uploads' = [uploads EXCEPT ![b] =
                            Append(@, [index |-> temp_index, response |-> Pending])]
    /\ work_queue' = Tail(work_queue)
    /\ UNCHANGED <<requests, args, file, pc, products, transformed_products, batches,
                   temp_index, success_count, error_count, error_batches,
                   aggregated, pending_error, stdout, exit_code, calls, remote>>

\* a worker thread takes the oldest queued batch and POSTs it
StartUpload ==
    /\ work_queue # <<>>
    /\ Cardinality(Running) < args.workers
    /\ LET b == Head(work_queue)
       IN  /\ futures' = [futures EXCEPT ![b] = [state |-> "running"]]
           /\ uploads' = [uploads EXCEPT ![b] =
                            Append(@, [index |-> temp_index, response |-> Pending])]
    /\ work_queue' = Tail(work_queue)
    /\ UNCHANGED <<requests, args, file, pc, products, transformed_products, batches,
                   temp_index, success_count, error_count, error_batches,
                   aggregated, pending_error, stdout, exit_code, calls, remote>>

\* Mutant: a failed upload cancels the batches still waiting in the queue.
FinishUpload_CancelsQueued(b) ==
    /\ b \in Running
    /\ \E resp \in UploadResponses(batches[b], args.batch_size) :
         /\ futures' = [futures EXCEPT ![b] =
                          [state |-> "finished",
                           outcome |-> ingest_batch(temp_index, batches[b], resp)]]
         /\ uploads' = [uploads EXCEPT ![b][Len(uploads[b])].response = resp]
         /\ work_queue' = IF resp.kind = "json" THEN work_queue ELSE <<>>
         /\ \E stored \in MayStore(resp) :
              remote' = [remote EXCEPT !.temp_items =
                            IF stored THEN @ \cup {b} ELSE @]
    /\ UNCHANGED <<requests, args, file, pc, products, transformed_products, batches,
                   temp_index, success_count, error_count, error_batches,
                   aggregated, pending_error, stdout, exit_code, calls>>

\* the request of batch b is answered (or fails) and ingest_batch returns
FinishUpload(b) ==
    /\ b \in Running
    /\ \E resp \in UploadResponses(batches[b], args.batch_size) :
         /\ futures' = [futures EXCEPT ![b] =
                          [state |-> "finished",
                           outcome |-> ingest_batch(temp_index, batches[b], resp)]]
         /\ uploads' = [uploads EXCEPT ![b][Len(uploads[b])].response = resp]
         /\ \E stored \in MayStore(resp) :
              remote' = [remote EXCEPT !.temp_items =
                            IF stored THEN @ \cup {b} ELSE @]
    /\ UNCHANGED <<requests, args, file, pc, products, transformed_products, batches,
                   temp_index, success_count, error_count, error_batches,
                   work_queue, aggregated, pending_error, stdout, exit_code,
                   calls>>

\* ------------------------------------------------------ specification

Main ==
    \/ LoadProducts
    \/ LoadFails
    \/ TransformProducts
    \/ PartitionBatches
    \/ CreateTemporaryIndex
    \/ SubmitBatch
    \/ \E b \in 1..Len(batches) : CollectResult(b)
    \/ ShutdownAfterError
    \/ ReplaceIndex
    \/ SkipReplace
    \/ PrintReport

Worker ==
    \/ StartUpload
    \/ \E b \in 1..Len(batches) : FinishUpload(b)

Next == Main \/ Worker

Spec == Init /\ [][Next]_vars

\* Every thread that can take a step eventually takes one: the interpreter
\* schedules all threads, and every upload ends within its 30 s timeout.
FairSpec == Spec /\ WF_vars(Main) /\ WF_vars(Worker)

\* ------------------------------------------------- vocabulary of the claims

BatchIds == 1..Len(futures)

Finished(b) == futures[b].state = "finished"

\* ingest_batch returned success=True / success=False for batch b
Succeeded(b) == Finished(b) /\ ~futures[b].outcome.raised /\ futures[b].outcome.value.success
Failed(b) == Finished(b) /\ ~futures[b].outcome.raised /\ ~futures[b].outcome.value.success

\* the number of items in the data the service returned for a succeeded batch
ReturnedItems(b) == futures[b].outcome.value.data.len

\* the temporary index was created and the result of every batch was tallied
AllAggregated == temp_index # "" /\ aggregated = 1..Len(batches)

\* main() is past the replace-or-not decision of a run it did not abort earlier
Decided == AllAggregated /\ pc \in {"report", "exited"}

ReplaceIssued == calls.replace # <<>>

\* ------------------------------------------------------------------ C1

\* C1: replace_index(temp, final) is invoked only once every batch result is
\* aggregated, and then if and only if success_count > 0, whatever
\* error_count is; it is invoked at most once, with the temporary index and
\* the configured index name.
C1_ReplaceIffSuccessCount ==
    /\ ReplaceIssued => AllAggregated /\ success_count > 0
    /\ Decided /\ success_count > 0 => ReplaceIssued
    /\ ReplaceIssued =>
          /\ Len(calls.replace) = 1
          /\ calls.replace[1].temp = temp_index
          /\ calls.replace[1].final = args.index

\* A run that replaced the index although more items failed than succeeded.
C1_Witness ==
    /\ pc = "exited"
    /\ ReplaceIssued
    /\ success_count = 1
    /\ error_count > success_count

\* ------------------------------------------------------------------ C3

\* C3: whenever replace_index has been issued, the result of at least one
\* batch that ingest_batch reported as succeeded has been aggregated.
C3_ReplaceOnlyAfterSuccess ==
    ReplaceIssued => \E b \in aggregated : Succeeded(b)

\* The index was replaced after exactly one of several batches succeeded.
C3_Witness ==
    /\ ReplaceIssued
    /\ Cardinality({b \in aggregated : Succeeded(b)}) = 1
    /\ Cardinality(aggregated) >= 2

\* ------------------------------------------------------------------ C2

\* C2, as claimed: a run that ends normally has swapped the temporary index
\* in if at least one batch upload succeeded, and has not if every batch
\* failed.
C2_SwapIffAnyBatchSucceeded ==
    pc = "exited" /\ exit_code = 0 =>
        (ReplaceIssued <=> \E b \in BatchIds : Succeeded(b))

\* C2, amended: once every batch result is aggregated the run issues the swap
\* if and only if some succeeded batch returned a non-empty payload; a run in
\* which every batch failed, or every succeeded batch returned no items, skips
\* the swap and leaves the temporary index in place beside the old production
\* index.
C2_SwapIffNonEmptySuccess ==
    /\ Decided =>
          (ReplaceIssued <=> \E b \in BatchIds : Succeeded(b) /\ ReturnedItems(b) > 0)
    /\ Decided /\ ~ReplaceIssued =>
          remote.temp_exists /\ remote.production = "old"

\* A batch succeeded with an empty payload beside a failed one: no swap.
C2_Witness ==
    /\ pc = "exited"
    /\ Decided
    /\ ~ReplaceIssued
    /\ \E b \in BatchIds : Succeeded(b) /\ ReturnedItems(b) = 0
    /\ \E b \in BatchIds : Failed(b)

\* ------------------------------------------------------------------ C4

\* C4, as claimed: once every batch result is aggregated,
\* success_count + error_count is the number of transformed items, whatever
\* the service returned.
C4_CountsSumToTotal ==
    AllAggregated => success_count + error_count = Len(transformed_products)

\* C4, amended: once every batch result is aggregated,
\* success_count + error_count is the number of transformed items provided
\* every succeeded batch was answered with exactly as many items as it held;
\* in general the sum is off by the difference between returned and uploaded
\* items of the succeeded batches.
C4_CountsSumToTotalWhenEchoed ==
    AllAggregated =>
        LET ok     == {b \in BatchIds : Succeeded(b)}
            excess == SumTo([b \in BatchIds |->
                               IF b \in ok THEN ReturnedItems(b) - Len(batches[b]) ELSE 0],
                            Len(futures))
        IN  /\ success_count + error_count = Len(transformed_products) + excess
            /\ (\A b \in ok : ReturnedItems(b) = Len(batches[b])) =>
                   success_count + error_count = Len(transformed_products)

\* Succeeded and failed batches of more than one item, each success answered
\* with as many items as were uploaded.
C4_Witness ==
    /\ AllAggregated
    /\ \E b \in BatchIds : Succeeded(b) /\ Len(batches[b]) > 1
    /\ \E b \in BatchIds : Failed(b) /\ Len(batches[b]) > 1
    /\ \A b \in BatchIds : Succeeded(b) => ReturnedItems(b) = Len(batches[b])

\* ------------------------------------------------------------------ C5

\* C5: at the end of aggregation success_count is the sum, over the batches
\* ingest_batch reported as succeeded, of the number of items in the returned
\* data, and error_count is the sum, over the failed batches, of the number of
\* items the batch contained; the failed results are kept for the report.
C5_CountsAreSums ==
    AllAggregated =>
        /\ success_count =
              SumTo([b \in BatchIds |-> IF Succeeded(b) THEN ReturnedItems(b) ELSE 0],
                    Len(futures))
        /\ error_count =
              SumTo([b \in BatchIds |-> IF Failed(b) THEN Len(batches[b]) ELSE 0],
                    Len(futures))
        /\ Len(error_batches) = Cardinality({b \in BatchIds : Failed(b)})

\* Two succeeded batches with different returned counts and a failed batch.
C5_Witness ==
    /\ AllAggregated
    /\ \E b1, b2 \in BatchIds :
          /\ b1 # b2
          /\ Succeeded(b1) /\ Succeeded(b2)
          /\ ReturnedItems(b1) # ReturnedItems(b2)
    /\ \E b \in BatchIds : Failed(b)

\* ------------------------------------------------------------------ C6

\* The end-to-end scenario: 250 products, batch size 100, the run is over,
\* two batches succeeded with 100 returned items each and one batch failed.
Scenario ==
    /\ Len(file) = 250
    /\ args.batch_size = 100
    /\ pc = "exited"
    /\ AllAggregated
    /\ Cardinality({b \in BatchIds : Succeeded(b) /\ ReturnedItems(b) = 100}) = 2
    /\ Cardinality({b \in BatchIds : Failed(b)}) = 1

LastLine == stdout[Len(stdout)]

\* the report reads: Total products 250, Successful imports 200, Failed
\* imports `failed`, and one error detail block
ScenarioReport(failed) ==
    /\ LastLine.kind = "report"
    /\ LastLine.total = 250
    /\ LastLine.successful = 200
    /\ LastLine.failed = failed
    /\ Len(LastLine.details) = 1
    /\ LastLine.details[1].count = failed

\* C6, as claimed: in the scenario, when the run ends normally, there are 3
\* batches, success_count = 200, error_count = 100, the replacement occurred
\* and the report shows 250 / 200 / 100 with one error detail block.
C6_ScenarioAsClaimed ==
    Scenario /\ exit_code = 0 =>
        /\ Len(batches) = 3
        /\ success_count = 200
        /\ error_count = 100
        /\ remote.production = "new"
        /\ ScenarioReport(100)

\* C6, amended: in the scenario there are 3 batches of 100, 100 and 50 items,
\* success_count = 200 and replace_index is issued; error_count is 100 when
\* the failed batch is one of the two full batches and 50 when it is the last
\* one; when replace_index succeeds the run ends normally with the production
\* index replaced and the report shows 250 / 200 / error_count with one error
\* detail block, and when it fails the run exits with code 1 without report.
C6_ScenarioByFailedBatch ==
    Scenario =>
        /\ Len(batches) = 3
        /\ success_count = 200
        /\ ReplaceIssued
        /\ Failed(1) \/ Failed(2) => error_count = 100
        /\ Failed(3) => error_count = 50
        /\ exit_code = 0 => remote.production = "new" /\ ScenarioReport(error_count)
        /\ exit_code # 0 =>
              /\ calls.replace[1].response # "ok"
              /\ remote.production = "old"
              /\ LastLine.kind = "critical"

\* The scenario with a full batch failed, ended normally.
C6_Witness ==
    /\ Scenario
    /\ exit_code = 0
    /\ Failed(2)
    /\ error_count = 100
    /\ ScenarioReport(100)

\* ------------------------------------------------------------------ C8

\* C8: ingest_batch never raises: whatever answers the upload, the future
\* holds a returned result and the only exception main() can meet in the
\* loop is the TypeError of len(); a JSON answer gives a result of exactly
\* success=True and the payload, and every failure (error status, timeout,
\* transport error, undecodable body) gives a result of exactly success=False,
\* the error text and the original batch.
C8_IngestBatchNeverRaises ==
    /\ \A b \in BatchIds :
          Finished(b) =>
              LET outcome == futures[b].outcome
                  resp    == uploads[b][1].response
              IN  /\ ~outcome.raised
                  /\ resp.kind = "json" =>
                        /\ DOMAIN outcome.value = {"success", "data"}
                        /\ outcome.value.success
                        /\ outcome.value.data = resp.json
                  /\ resp.kind # "json" =>
                        /\ DOMAIN outcome.value = {"success", "error", "products"}
                        /\ ~outcome.value.success
                        /\ outcome.value.error = resp.kind
                        /\ outcome.value.products = batches[b]
    /\ pending_error \in {"", "TypeError"}

\* Uploads that met an error status, a timeout and a transport error, all
\* turned into failure results and tallied.
C8_Witness ==
    /\ AllAggregated
    /\ \A k \in {"http_error", "timeout", "connection_error"} :
          \E b \in BatchIds : Failed(b) /\ uploads[b][1].response.kind = k

\* ------------------------------------------------------------------ C9

\* main() has built the batches
Partitioned == stdout # <<>> /\ stdout[1].kind = "start"

\* C9: the batches are a lossless, order-preserving partition of the
\* transformed list: concatenated in order they give back the transformed
\* sequence, every batch holds between 1 and batch_size items, every batch
\* but the last holds exactly batch_size, and there are ceil(N / batch_size)
\* batches.
C9_BatchesPartition ==
    Partitioned =>
        LET n == Len(transformed_products)
            s == args.batch_size
        IN  /\ Concat(batches, Len(batches)) = transformed_products
            /\ \A k \in 1..Len(batches) :
                  /\ Len(batches[k]) >= 1
                  /\ Len(batches[k]) <= s
                  /\ k < Len(batches) => Len(batches[k]) = s
            /\ Len(batches) = IF n % s = 0 THEN n \div s ELSE (n \div s) + 1

\* Several batches, the last one shorter than the others.
C9_Witness ==
    /\ Partitioned
    /\ Len(batches) >= 2
    /\ Len(batches[Len(batches)]) < args.batch_size

\* ----------------------------------------------------------------- C10

\* creation of the temporary index was requested and failed
CreateFailed == calls.create # <<>> /\ calls.create[1].response # "ok"

\* C10: if creating the temporary index fails, the run is over with exit code
\* 1 after printing the critical error: no batch was submitted or uploaded
\* and replace_index was not issued.
C10_CreateFailureAborts ==
    CreateFailed =>
        /\ pc = "exited"
        /\ exit_code = 1
        /\ LastLine.kind = "critical"
        /\ temp_index = ""
        /\ futures = <<>>
        /\ work_queue = <<>>
        /\ uploads = <<>>
        /\ ~ReplaceIssued

\* The creation failed with several batches ready to upload.
C10_Witness ==
    /\ CreateFailed
    /\ Len(batches) >= 2

\* ------------------------------------------------------------------ C7

\* C7: a failed batch cancels nothing: every submitted batch, running or
\* queued, eventually has a result (again and again every batch submitted so
\* far has one, and a submitted batch stays submitted); a result once
\* produced never changes and no batch is uploaded twice; and main() reaches
\* the replace-or-not decision only after the results of all batches have
\* been aggregated.
C7_NoCancellation ==
    /\ []<>(\A b \in BatchIds : Finished(b))
    /\ [][\A b \in BatchIds :
             /\ b \in 1..Len(futures')
             /\ Finished(b) => futures'[b] = futures[b]]_vars
    /\ [](\A b \in BatchIds : Len(uploads[b]) <= 1)
    /\ [](pc \in {"decide", "report"} \/ ReplaceIssued => AllAggregated)

\* With a single worker the first batch failed while the second was still
\* queued; the second ran nevertheless and the decision was taken after both.
C7_Witness ==
    /\ args.workers = 1
    /\ Len(futures) >= 2
    /\ Failed(1)
    /\ Succeeded(2)
    /\ pc = "report"
    /\ AllAggregated

\* ----------------------------------------------------------------- C11

\* open() or json.load() raised
LoadFailed ==
    /\ stdout # <<>>
    /\ stdout[1].kind = "critical"
    /\ stdout[1].error \in {"FileNotFoundError", "JSONDecodeError"}

\* the catalog was loaded and one of its records has no title
TransformFailed ==
    /\ pc \notin {"load", "transform"}
    /\ ~LoadFailed
    /\ \E i \in 1..Len(file) : ~HasTitle(file[i])

\* replace_index was issued and raised
ReplaceFailed == ReplaceIssued /\ calls.replace[1].response # "ok"

\* main() tallied, or tried to tally, a succeeded result whose payload has no
\* length, and left the loop
TallyRaised ==
    /\ pc \in {"shutdown", "exited"}
    /\ \E b \in BatchIds : Succeeded(b) /\ ~Sized(futures[b].outcome.value.data)
    /\ pending_error = "TypeError"

C12_ReplaceFailureNoCompensation ==
    /\ [](ReplaceFailed =>
             /\ pc = "exited"
             /\ exit_code = 1
             /\ LastLine.kind = "critical"
             /\ Len(calls.replace) = 1
             /\ Len(calls.create) = 1
             /\ \A b \in BatchIds : Len(uploads[b]) = 1
             /\ remote.temp_exists
             /\ remote.production = "old")
    /\ [][~ReplaceFailed /\ ReplaceFailed' =>
             /\ remote' = remote
             /\ uploads' = uploads
             /\ calls'.create = calls.create
             /\ futures' = futures]_vars
    /\ [][ReplaceFailed => vars' = vars]_vars

\* The replacement failed after some batches had been stored in the temporary
\* index and another had failed.
C12_Witness ==
    /\ ReplaceFailed
    /\ remote.temp_items # {}
    /\ \E b \in BatchIds : Failed(b)

\* ----------------------------------------------------------------- C13

\* the error entry the report owes to failed batch b
ErrorEntry(b) == [error |-> uploads[b][1].response.kind, count |-> Len(batches[b])]

\* the last line printed is the terminal report: the items attempted, the
\* items the service returned for the succeeded batches, the items of the
\* failed batches, and exactly one error entry per failed batch
TerminalReport ==
    /\ LastLine.kind = "report"
    /\ LastLine.total = Len(file)
    /\ LastLine.successful =
          SumTo([b \in BatchIds |-> IF Succeeded(b) THEN ReturnedItems(b) ELSE 0],
                Len(futures))
    /\ LastLine.failed =
          SumTo([b \in BatchIds |-> IF Failed(b) THEN Len(batches[b]) ELSE 0],
                Len(futures))
    /\ Len(LastLine.details) = Cardinality({b \in BatchIds : Failed(b)})
    /\ \A b \in BatchIds :
          Failed(b) =>
              Cardinality({k \in 1..Len(LastLine.details) :
                              LastLine.details[k] = ErrorEntry(b)})
                  = Cardinality({c \in BatchIds : Failed(c) /\ ErrorEntry(c) = ErrorEntry(b)})

\* C13, as claimed: a run that is over with every batch result aggregated
\* has printed the terminal report.
C13_ReportAfterAllResolved ==
    pc = "exited" /\ AllAggregated => TerminalReport

\* C13, amended: once every batch result is aggregated main() goes on to the
\* end of the run, and unless replace_index failed the run ends with the
\* terminal report: total items attempted, total succeeded, total failed and
\* one error entry per failed batch with its error message and item count.
\* When replace_index fails the run ends with the critical error and prints
\* no report.
C13_ReportUnlessReplaceFails ==
    /\ []<>(pc \notin {"decide", "report"})
    /\ [](pc = "exited" /\ AllAggregated /\ ~ReplaceFailed => TerminalReport)
    /\ [](pc = "exited" /\ ReplaceFailed =>
             \A k \in 1..Len(stdout) : stdout[k].kind # "report")

\* A report with two error entries of different errors, after a replacement.
C13_Witness ==
    /\ pc = "exited"
    /\ ReplaceIssued
    /\ LastLine.kind = "report"
    /\ Len(LastLine.details) = 2
    /\ LastLine.details[1].error # LastLine.details[2].error

\* ----------------------------------------------------------------- C14

\* the keys transform_product reads, with a value for each
CatalogKeys ==
    {"platform_id", "title", "description", "image_url", "url", "price", "category"}

FullRecord ==
    [platform_id |-> <<"sku", 7>>, title |-> "title", description |-> "text",
     image_url |-> "http://img", url |-> "http://page", price |-> 5,
     category |-> <<"shoes">>]

\* the record that has exactly the keys in `keys`
RecordWith(keys) == [k \in keys |-> FullRecord[k]]

\* Catalogs of one record with any set of keys, and of two records whose
\* first is complete.
TransformCatalogs ==
    {<<RecordWith(keys)>> : keys \in SUBSET CatalogKeys}
    \cup {<<FullRecord, RecordWith(keys)>> : keys \in SUBSET CatalogKeys}

TransformInit ==
    /\ args = [batch_size |-> 1, workers |-> 1, index |-> DefaultIndex]
    /\ file \in TransformCatalogs
    /\ pc = "load"
    /\ products = <<>>
    /\ transformed_products = <<>>
    /\ batches = <<>>
    /\ temp_index = ""
    /\ success_count = 0
    /\ error_count = 0
    /\ error_batches = <<>>
    /\ futures = <<>>
    /\ work_queue = <<>>
    /\ aggregated = {}
    /\ pending_error = ""
    /\ stdout = <<>>
    /\ exit_code = 0
    /\ calls = [create |-> <<>>, replace |-> <<>>]
    /\ uploads = <<>>
    /\ remote = [temp_exists |-> FALSE, temp_items |-> {}, production |-> "old"]
    /\ requests = <<>>

TransformNext == LoadProducts \/ TransformProducts

\* main() up to the transform, on catalogs of records with any keys
TransformSpec == TransformInit /\ [][TransformNext]_vars

\* item is what the claim promises for a record that has a title
TransformedAsClaimed(record, item) ==
    /\ DOMAIN item = {"id", "title", "description", "image_url", "link", "price",
                      "categories", "availability"}
    /\ item.title = record.title
    /\ item.availability = "in stock"
    /\ item.id = IF "platform_id" \in DOMAIN record THEN record.platform_id
                 ELSE TimeStr(item.id[2])
    /\ Len(item.id) > 0
    /\ item.description = IF "description" \in DOMAIN record THEN record.description ELSE ""
    /\ item.image_url = IF "image_url" \in DOMAIN record THEN record.image_url ELSE ""
    /\ item.link = IF "url" \in DOMAIN record THEN record.url ELSE ""
    /\ item.price = IF "price" \in DOMAIN record THEN record.price ELSE 0
    /\ item.categories = IF "category" \in DOMAIN record THEN record.category ELSE <<>>

\* C14: the transform fails if and only if some record has no title key (the
\* run then ends with the KeyError as critical error); otherwise every record
\* gives one item, in order, with id, title, description, image_url, link,
\* price, categories and availability = "in stock", an absent platform_id
\* replaced by a non-empty time-derived id, absent description, image_url and
\* url by the empty string, an absent price by 0 and an absent category by
\* the empty list.
C14_TransformTotalGivenTitle ==
    pc \notin {"load", "transform"} =>
        /\ (pc = "exited" /\ exit_code = 1 /\ LastLine.error = "KeyError")
              <=> \E i \in 1..Len(file) : "title" \notin DOMAIN file[i]
        /\ (pc = "partition")
              <=> \A i \in 1..Len(file) : "title" \in DOMAIN file[i]
        /\ pc = "partition" =>
              /\ Len(transformed_products) = Len(file)
              /\ \A i \in 1..Len(file) :
                    TransformedAsClaimed(file[i], transformed_products[i])

\* A record that has only a title was transformed.
C14_Witness ==
    /\ pc = "partition"
    /\ Len(file) = 2
    /\ DOMAIN file[2] = {"title"}
    /\ transformed_products[2].id[1] = "ts"

\* ------------------------------------------ search client (search.py)

\* A dict is the sequence of its <<key, value>> items in insertion order, with
\* distinct keys. A filter's conditions are a dict of operators or any other
\* value; `dict` records what isinstance(conditions, dict) answers.
Fields == {"price", "brand", "price][range"}
Operators == {"gte", "lt", "range][gte"}
Values == {"10", "20"}
Operand == [op \in Operators |->
               CASE op = "gte" -> "10" [] op = "lt" -> "20" [] OTHER -> "30"]

MaxFields == 2       \* items in a filter mapping
MaxOperators == 2    \* operators in one field's conditions

\* the sequences of at most n distinct elements of S
Orderings(S, n) ==
    {s \in UNION {[1..k -> S] : k \in 0..n} :
        \A i, j \in DOMAIN s : i # j => s[i] # s[j]}

Scalar(value) == [dict |-> FALSE, value |-> value]
Dict(items) == [dict |-> TRUE, items |-> items]

Conditions ==
    {Scalar(v) : v \in Values}
    \cup {Dict([i \in 1..Len(ops) |-> <<ops[i], Operand[ops[i]]>>]) :
             ops \in Orderings(Operators, MaxOperators)}

\* the filter mappings of at most n fields
FilterMappings(n) ==
    UNION {{[i \in 1..Len(fs) |-> <<fs[i], cs[i]>>] :
               cs \in [1..Len(fs) -> Conditions]} :
           fs \in Orderings(Fields, n)}

\* params[key] = value
SetItem(params, key, value) ==
    [k \in DOMAIN params \cup {key} |-> IF k = key THEN value ELSE params[k]]

\* str(uuid4()): a value no earlier request of the run carried
Uuid(n) == "uuid-" \o ToString(n)

RECURSIVE search_conditions(_, _, _, _)
\* search(): for op, value in conditions.items()
search_conditions(params, field, items, i) ==
    IF i > Len(items) THEN params
    ELSE search_conditions(
             SetItem(params, "filter[" \o field \o "][" \o items[i][1] \o "]",
                     items[i][2]),
             field, items, i + 1)

RECURSIVE search_filters(_, _, _)
\* search(): for field, conditions in filters.items()
search_filters(params, filters, i) ==
    IF i > Len(filters) THEN params
    ELSE LET field == filters[i][1]
             conditions == filters[i][2]
         IN search_filters(
                IF conditions.dict
                THEN search_conditions(params, field, conditions.items, 1)
                ELSE SetItem(params, "filter[" \o field \o "][]", conditions.value),
                filters, i + 1)

RECURSIVE similar_conditions(_, _, _, _)
\* similar_products(): for op, value in conditions.items()
similar_conditions(params, field, items, i) ==
    IF i > Len(items) THEN params
    ELSE similar_conditions(
             SetItem(params, "filter[" \o field \o "][" \o items[i][1] \o "]",
                     items[i][2]),
             field, items, i + 1)

RECURSIVE similar_filters_NoBrackets(_, _, _)
\* Mutant: similar_products() encodes a scalar filter as filter[field].
similar_filters_NoBrackets(params, filters, i) ==
    IF i > Len(filters) THEN params
    ELSE LET field == filters[i][1]
             conditions == filters[i][2]
         IN similar_filters_NoBrackets(
                IF conditions.dict
                THEN similar_conditions(params, field, conditions.items, 1)
                ELSE SetItem(params, "filter[" \o field \o "]", conditions.value),
                filters, i + 1)

RECURSIVE similar_filters(_, _, _)
\* similar_products(): for field, conditions in filters.items()
similar_filters(params, filters, i) ==
    IF i > Len(filters) THEN params
    ELSE LET field == filters[i][1]
             conditions == filters[i][2]
         IN similar_filters(
                IF conditions.dict
                THEN similar_conditions(params, field, conditions.items, 1)
                ELSE SetItem(params, "filter[" \o field \o "][]", conditions.value),
                filters, i + 1)

RECURSIVE indexed_items(_, _, _, _, _)
\* search(): for key, value in d.items(): params[f"{name}[{idx}][{key}]"] = value
indexed_items(params, name, idx, items, i) ==
    IF i > Len(items) THEN params
    ELSE indexed_items(
             SetItem(params,
                     name \o "[" \o ToString(idx) \o "][" \o items[i][1] \o "]",
                     items[i][2]),
             name, idx, items, i + 1)

RECURSIVE indexed_params(_, _, _, _)
\* search(): for idx, d in enumerate(list), for the sort and the facets lists
indexed_params(params, name, list, i) ==
    IF i > Len(list) THEN params
    ELSE indexed_params(indexed_items(params, name, i - 1, list[i], 1),
                        name, list, i + 1)

\* The params search() sends; None and empty arguments are the empty
\* sequence or the empty string.
search(query, page, rpp, indices, filters, sort, facets, query_name, session) ==
    LET base == [query |-> query, page |-> page, rpp |-> rpp,
                 session_id |-> session]
        with_indices == IF indices # <<>> THEN SetItem(base, "indices[]", indices)
                        ELSE base
        with_filters == IF filters # <<>> THEN search_filters(with_indices, filters, 1)
                        ELSE with_indices
        with_sort == IF sort # <<>> THEN indexed_params(with_filters, "sort", sort, 1)
                     ELSE with_filters
        with_facets == IF facets # <<>>
                       THEN indexed_params(with_sort, "facets", facets, 1)
                       ELSE with_sort
    IN IF query_name # "" THEN SetItem(with_facets, "query_name", query_name)
       ELSE with_facets

\* The params similar_products() sends.
similar_products(product_id, rpp, exclude_self, filters, session) ==
    LET base == [dfid |-> product_id, rpp |-> rpp, exclude_self |-> exclude_self,
                 session_id |-> session]
    IN IF filters # <<>> THEN similar_filters(base, filters, 1) ELSE base

\* the optional arguments of search() besides filters
SearchOptions ==
    {[indices |-> <<>>, sort |-> <<>>, facets |-> <<>>, query_name |-> ""],
     [indices |-> <<"product">>, sort |-> << <<<<"price", "asc">>>> >>,
      facets |-> <<>>, query_name |-> ""],
     [indices |-> <<>>, sort |-> <<>>,
      facets |-> << <<<<"field", "brand">>, <<"size", "10">>>> >>,
      query_name |-> "fuzzy"]}

Requested(endpoint) == \E k \in 1..Len(requests) : requests[k].endpoint = endpoint

\* a caller passes one filter mapping to the operations it calls
FiltersInUse ==
    IF requests = <<>> THEN FilterMappings(MaxFields) ELSE {requests[1].filters}

\* client.search(query, ..., filters=filters), once in a run
Search ==
    /\ ~Requested("/_search")
    /\ \E filters \in FiltersInUse, o \in SearchOptions :
         requests' = Append(requests,
             [endpoint |-> "/_search", filters |-> filters,
              params |-> search("shoes", 1, 20, o.indices, filters, o.sort,
                                o.facets, o.query_name, Uuid(Len(requests) + 1))])
    /\ UNCHANGED <<args, file, pc, products, transformed_products, batches,
                   temp_index, success_count, error_count, error_batches, futures,
                   work_queue, aggregated, pending_error, stdout, exit_code, calls,
                   uploads, remote>>

\* client.similar_products(product_id, filters=filters), once in a run
SimilarProducts ==
    /\ ~Requested("/_visually_similar")
    /\ \E filters \in FiltersInUse :
         requests' = Append(requests,
             [endpoint |-> "/_visually_similar", filters |-> filters,
              params |-> similar_products("dfid-1", 10, TRUE, filters,
                                          Uuid(Len(requests) + 1))])
    /\ UNCHANGED <<args, file, pc, products, transformed_products, batches,
                   temp_index, success_count, error_count, error_batches, futures,
                   work_queue, aggregated, pending_error, stdout, exit_code, calls,
                   uploads, remote>>

SearchInit ==
    /\ requests = <<>>
    /\ args = [batch_size |-> DefaultBatchSize, workers |-> DefaultWorkers,
               index |-> DefaultIndex]
    /\ file = <<>>
    /\ pc = "load"
    /\ products = <<>>
    /\ transformed_products = <<>>
    /\ batches = <<>>
    /\ temp_index = ""
    /\ success_count = 0
    /\ error_count = 0
    /\ error_batches = <<>>
    /\ futures = <<>>
    /\ work_queue = <<>>
    /\ aggregated = {}
    /\ pending_error = ""
    /\ stdout = <<>>
    /\ exit_code = 0
    /\ calls = [create |-> <<>>, replace |-> <<>>]
    /\ uploads = <<>>
    /\ remote = [temp_exists |-> FALSE, temp_items |-> {}, production |-> "old"]

SearchNext == Search \/ SimilarProducts

\* the search client building its requests, for every filter mapping
SearchSpec == SearchInit /\ [][SearchNext]_vars

\* ----------------------------------------------------------------- C15

\* the filter parameters of a request: the items whose key starts "filter["
FilterParams(params) ==
    {<<k, params[k]>> : k \in {key \in DOMAIN params :
                                  Len(key) >= 7 /\ SubSeq(key, 1, 7) = "filter["}}

\* the parameters the claim lists for a filter mapping, each with the
\* filter item it comes from
ClaimedParams(filters) ==
    UNION {IF filters[i][2].dict
           THEN {<<i, k, "filter[" \o filters[i][1] \o "][" \o filters[i][2].items[k][1] \o "]",
                   filters[i][2].items[k][2]>> : k \in 1..Len(filters[i][2].items)}
           ELSE {<<i, 0, "filter[" \o filters[i][1] \o "][]", filters[i][2].value>>}
           : i \in 1..Len(filters)}

\* exactly the claimed parameters, one for each
EncodedAsClaimed(r) ==
    /\ FilterParams(r.params) = {<<c[3], c[4]>> : c \in ClaimedParams(r.filters)}
    /\ Cardinality(FilterParams(r.params)) = Cardinality(ClaimedParams(r.filters))

SameEncoding ==
    \A j, k \in 1..Len(requests) :
        requests[j].filters = requests[k].filters
            => FilterParams(requests[j].params) = FilterParams(requests[k].params)

BracketFree(s) == \A i \in 1..Len(s) : SubSeq(s, i, i) \notin {"[", "]"}

\* field names and operators are free of square brackets
PlainNames(filters) ==
    \A i \in 1..Len(filters) :
        /\ BracketFree(filters[i][1])
        /\ filters[i][2].dict =>
              \A k \in 1..Len(filters[i][2].items) : BracketFree(filters[i][2].items[k][1])

\* C15 as stated: for every filter mapping, search and similar_products send
\* exactly one parameter filter[field][] = value for a field whose value is not
\* a mapping, exactly one parameter filter[field][operator] = value for each
\* operator of a field whose value is a mapping, no other filter parameter,
\* and the same parameters in both operations.
C15_FiltersEncodedAsClaimed ==
    /\ \A k \in 1..Len(requests) : EncodedAsClaimed(requests[k])
    /\ SameEncoding

\* C15: the same, for filter mappings whose field names and operators contain
\* no square bracket; for every filter mapping both operations send the same
\* filter parameters.
C15_FiltersEncodedForPlainNames ==
    /\ \A k \in 1..Len(requests) :
          PlainNames(requests[k].filters) => EncodedAsClaimed(requests[k])
    /\ SameEncoding

\* Both operations were called with price: {gte, lt} and a scalar brand filter.
C15_Witness ==
    /\ Len(requests) = 2
    /\ requests[1].endpoint # requests[2].endpoint
    /\ requests[1].filters =
          << <<"price", Dict(<< <<"gte", "10">>, <<"lt", "20">> >>)>>,
             <<"brand", Scalar("20")>> >>
    /\ Cardinality(FilterParams(requests[1].params)) = 3
    /\ Cardinality(FilterParams(requests[2].params)) = 3

\* ----------------------------------------------------------------- C16

\* how many times batch b was handed to the executor: a submitted task waits
\* in the queue or has made its one POST
Submissions(b) ==
    (IF b <= Len(uploads) THEN Len(uploads[b]) ELSE 0)
    + Cardinality({k \in 1..Len(work_queue) : work_queue[k] = b})

\* the with block of the executor was entered and every submit was made
Dispatched == temp_index # "" /\ pc \notin {"create", "submit"}

\* C16: no batch is retried. A batch is never submitted to ingest_batch more
\* than once, and exactly once as soon as the run has dispatched its batches;
\* it causes at most one upload request, answered or failed; a failed batch
\* that was tallied is not queued again and has exactly one entry in the
\* error list.
C16_NoRetry ==
    \A b \in 1..Len(batches) :
        /\ Submissions(b) <= 1
        /\ Dispatched => b \in BatchIds /\ Submissions(b) = 1
        /\ b \in BatchIds /\ Finished(b) =>
              /\ Len(uploads[b]) = 1
              /\ uploads[b][1].response # Pending
        /\ b \in aggregated /\ Failed(b) =>
              /\ \A k \in 1..Len(work_queue) : work_queue[k] # b
              /\ Cardinality({k \in 1..Len(error_batches) :
                                 error_batches[k].products = batches[b]}) = 1

\* A run ended after one of its two batches failed and the other succeeded.
C16_Witness ==
    /\ pc = "exited"
    /\ Len(batches) = 2
    /\ aggregated = {1, 2}
    /\ Failed(1)
    /\ Succeeded(2)
    /\ Len(uploads[1]) = 1
    /\ Len(error_batches) = 1

\* ----------------------------------------------------------------- C17

\* the batches whose POST was sent and is not answered yet
InFlight ==
    {b \in 1..Len(uploads) :
        uploads[b] # <<>> /\ uploads[b][Len(uploads[b])].response = Pending}

\* C17: at every moment the uploads in flight are those of the running workers
\* and there are at most args.workers of them; a queued batch has sent
\* nothing, and leaves the queue only in a step that finds fewer than
\* args.workers uploads running, as the oldest queued batch.
C17_WorkerPoolBounded ==
    /\ [](/\ InFlight = Running
          /\ Cardinality(InFlight) <= args.workers
          /\ \A k \in 1..Len(work_queue) : uploads[work_queue[k]] = <<>>)
    /\ [][work_queue' # work_queue /\ Len(work_queue') <= Len(work_queue) =>
             /\ Cardinality(Running) < args.workers
             /\ work_queue' = Tail(work_queue)
             /\ Running' = Running \cup {Head(work_queue)}]_vars

\* One worker is configured and busy with the first batch; the second waits.
C17_Witness ==
    /\ args.workers = 1
    /\ Running = {1}
    /\ work_queue = <<2>>

\* ----------------------------------------------------------------- C18

\* the failed batches tallied so far
AggregatedFailures == {b \in aggregated : Failed(b)}

\* C18: whatever order the uploads complete and are collected in, the
\* counters hold the sums over the batches collected so far (no update is
\* lost), the error list holds exactly the results of the failed ones, and
\* once every batch is collected the index is replaced if and only if the
\* succeeded batches returned an item: all are functions of the outcome of
\* each batch.
C18_OrderIndependent ==
    /\ success_count =
          SumTo([b \in BatchIds |->
                    IF b \in aggregated /\ Succeeded(b) THEN ReturnedItems(b) ELSE 0],
                Len(futures))
    /\ error_count =
          SumTo([b \in BatchIds |->
                    IF b \in aggregated /\ Failed(b) THEN Len(batches[b]) ELSE 0],
                Len(futures))
    /\ Len(error_batches) = Cardinality(AggregatedFailures)
    /\ {error_batches[k] : k \in 1..Len(error_batches)} =
          {futures[b].outcome.value : b \in AggregatedFailures}
    /\ Decided =>
          (ReplaceIssued <=> \E b \in BatchIds : Succeeded(b) /\ ReturnedItems(b) > 0)

\* Two batches failed and the second was collected before the first.
C18_Witness ==
    /\ pc = "exited"
    /\ Len(error_batches) = 2
    /\ error_batches[1].products = batches[2]
    /\ error_batches[2].products = batches[1]
    /\ error_count = Len(batches[1]) + Len(batches[2])

\* ----------------------------------------------------------------- C19

\* C19: every upload goes to the index named args.index followed by "_temp",
\* the name create_temporary_index returned, and never to args.index; before
\* any batch is dispatched that index was created with one successful
\* request; replace_index is called at most once, and the production index
\* changes only in the step that makes this call, for args.index.
C19_UploadsToTempIndex ==
    /\ [](\A b \in 1..Len(uploads) : \A k \in 1..Len(uploads[b]) :
            /\ uploads[b][k].index = args.index \o "_temp"
            /\ uploads[b][k].index = temp_index
            /\ uploads[b][k].index # args.index)
    /\ [](futures # <<>> =>
            /\ calls.create = <<[index |-> args.index \o "_temp", response |-> "ok"]>>
            /\ remote.temp_exists)
    /\ [](Len(calls.replace) <= 1)
    /\ [][remote.production' # remote.production =>
             /\ calls.replace = <<>>
             /\ Len(calls.replace') = 1
             /\ calls.replace'[1].final = args.index
             /\ calls.replace'[1].temp = args.index \o "_temp"]_vars

\* Two batches were uploaded and the production index was replaced.
C19_Witness ==
    /\ pc = "exited"
    /\ Len(uploads) = 2
    /\ uploads[1][1].index = "product_temp"
    /\ uploads[2][1].index = "product_temp"
    /\ remote.production = "new"

\* ----------------------------------------------------------------- C20

\* no request was sent and the service is as it was
RemoteUntouched ==
    /\ calls = [create |-> <<>>, replace |-> <<>>]
    /\ uploads = <<>>
    /\ futures = <<>>
    /\ temp_index = ""
    /\ remote = [temp_exists |-> FALSE, temp_items |-> {}, production |-> "old"]

\* the catalog was loaded, every record transformed, the batches built
SetupDone ==
    /\ products = file
    /\ Len(transformed_products) = Len(file)
    /\ Partitioned
    /\ Concat(batches, Len(batches)) = transformed_products

\* C20: the first remote call comes after the catalog was loaded, every
\* record transformed and the batches built; a run whose catalog has a record
\* without title, at any position, or whose file cannot be loaded never sends
\* a request: it creates no temporary index, uploads no batch, replaces no
\* index, and ends with exit code 1.
C20_SetupBeforeRemote ==
    /\ ~RemoteUntouched => SetupDone
    /\ (\E i \in 1..Len(file) : ~HasTitle(file[i])) => RemoteUntouched
    /\ LoadFailed => RemoteUntouched /\ pc = "exited" /\ exit_code = 1
    /\ TransformFailed =>
          /\ pc = "exited"
          /\ exit_code = 1
          /\ LastLine = [kind |-> "critical", error |-> "KeyError"]

\* A run aborted on a catalog whose second record has no title.
C20_Witness ==
    /\ pc = "exited"
    /\ TransformFailed
    /\ Len(file) = 2
    /\ HasTitle(file[1])
    /\ ~HasTitle(file[2])
    /\ RemoteUntouched

====
